---- MODULE Spec2Model ----
(***************************************************************************)
(* Model of build_fcf_dataset.py ("basic") and build_fcf_dataset_simfin.py *)
(* ("extended"): the retry wrapper around the provider calls, the CapEx    *)
(* column probe, the fundamentals merge / year filter / sort / lagged      *)
(* growth, the 7-day price alignment, the drop of unmatched rows and the   *)
(* final metrics.                                                          *)
(*                                                                         *)
(* Numbers are float64 cells modelled as extended rationals <<n, d>>:      *)
(*   d > 0  the finite value n/d (in lowest terms),                        *)
(*   <<1,0>> = +inf, <<-1,0>> = -inf, <<0,0>> = NaN (pandas' null).        *)
(* Rounding and the sign of zero are not modelled.                         *)
(* The Revenue and Net Income columns the extended script carries through  *)
(* unchanged are left out of the rows.                                     *)
(* Dates are day numbers, day 0 = 1999-01-01 (Gregorian).                  *)
(***************************************************************************)
EXTENDS Integers, Sequences, FiniteSets, TLC

VARIABLES
    variant,    \* which script runs: "basic" or "extended"
    pc,         \* the statement the script is at
    i,          \* retry: the loop variable
    sleeps,     \* retry: the time.sleep(wait) calls of the current call
    calls,      \* retry: the invocations of func in the current call
    last,       \* retry: the outcome of the last invocation of func
    err,        \* the exception that ended the script, if any
    cf,         \* cash-flow table: its columns and rows
    inc,        \* income table
    capex_col,  \* the resolved CapEx column
    fund,       \* fundamentals with FCF-per-share growth
    px,         \* daily prices
    temp,       \* the aligned price of each (Ticker, RptDate)
    merged,     \* fund joined with temp, rows without a price dropped
    out         \* OUT_CSV

vars == <<variant, pc, i, sleeps, calls, last, err,
          cf, inc, capex_col, fund, px, temp, merged, out>>

-----------------------------------------------------------------------------
(* CONFIG *)

START_YEAR == 2000
MAX_RETRY == 5
RETRY_DELAY == 8
WINDOW_DAYS == 7

CAPEX_CANDS == << "Change in Fixed Assets & Intangibles",
                  "Purchase of PPE & Intangibles, net",
                  "Capital Expenditures (Fixed Assets)",
                  "Capital Expenditures" >>

Variants == {"basic", "extended"}

\* the lag windows (in quarters) of each script
LAGS(v) == IF v = "basic" THEN {4, 8} ELSE {2, 4, 8, 12}

-----------------------------------------------------------------------------
(* float64 arithmetic on extended rationals *)

NaN == <<0, 0>>

Abs(n) == IF n < 0 THEN -n ELSE n
Sign(n) == IF n < 0 THEN -1 ELSE IF n > 0 THEN 1 ELSE 0

RECURSIVE Gcd(_, _)
Gcd(a, b) == IF b = 0 THEN a ELSE Gcd(b, a % b)

Norm(n, d) ==
    IF d = 0 THEN <<Sign(n), 0>>
    ELSE LET g == Gcd(Abs(n), Abs(d))
         IN  <<(Sign(d) * n) \div g, Abs(d) \div g>>

Num(n) == <<n, 1>>
IsNull(x) == x = NaN
IsFinite(x) == x[2] > 0

FAdd(a, b) ==
    IF a[2] = 0 /\ b[2] = 0
    THEN (IF a = b THEN a ELSE NaN)        \* inf+inf, inf-inf, NaN+...
    ELSE Norm(a[1] * b[2] + b[1] * a[2], a[2] * b[2])

FNeg(a) == <<-a[1], a[2]>>
FSub(a, b) == FAdd(a, FNeg(b))
FMul(a, b) == Norm(a[1] * b[1], a[2] * b[2])
\* x / 0 is +-inf for x # 0 and NaN for x = 0; pandas raises no error
FDiv(a, b) == FMul(a, Norm(b[2], b[1]))

-----------------------------------------------------------------------------
(* dates *)

IsLeap(y) == (y % 4 = 0 /\ y % 100 # 0) \/ y % 400 = 0
DaysIn(y) == IF IsLeap(y) THEN 366 ELSE 365

RECURSIVE YearFrom(_, _)
YearFrom(y, d) == IF d < DaysIn(y) THEN y ELSE YearFrom(y + 1, d - DaysIn(y))

\* Timestamp.dt.year of day number d
YearOf(d) == YearFrom(1999, d)

NaT == -1

-----------------------------------------------------------------------------
(* table helpers: a table is a sequence of rows (records) *)

Range(s) == {s[j] : j \in 1..Len(s)}

Reverse(s) == [j \in 1..Len(s) |-> s[Len(s) + 1 - j]]

RECURSIVE Concat(_)
Concat(ss) == IF ss = <<>> THEN <<>> ELSE Head(ss) \o Concat(Tail(ss))

\* the ticker universe, in Python's string order
Tickers == <<"A", "B">>
TickerRank(t) == CHOOSE r \in 1..Len(Tickers) : Tickers[r] = t

\* lexicographic order on tuples of integers of equal length
RECURSIVE LexLess(_, _)
LexLess(a, b) ==
    /\ a # <<>>
    /\ \/ Head(a) < Head(b)
       \/ Head(a) = Head(b) /\ LexLess(Tail(a), Tail(b))

\* the sort key of row r for sort_values(by): tickers compare as strings,
\* dates as day numbers
KeyOf(r, by) ==
    [k \in 1..Len(by) |-> IF by[k] = "Ticker" THEN TickerRank(r[by[k]]) ELSE r[by[k]]]

\* insert row r after the rows of sorted s whose key is <= its key (stable)
RECURSIVE Insert(_, _, _)
Insert(s, r, by) ==
    IF s = <<>> THEN <<r>>
    ELSE IF LexLess(KeyOf(r, by), KeyOf(Head(s), by)) THEN <<r>> \o s
         ELSE <<Head(s)>> \o Insert(Tail(s), r, by)

\* DataFrame.sort_values(by) on several columns (a stable lexsort)
RECURSIVE SortValues(_, _)
SortValues(s, by) ==
    IF s = <<>> THEN <<>>
    ELSE Insert(SortValues(SubSeq(s, 1, Len(s) - 1), by), s[Len(s)], by)

\* mutant of GroupShift: DataFrame.shift(L) without the groupby
UngroupedShift(s, col, L, j) == IF j > L THEN s[j - L][col] ELSE NaN

\* the positions of the rows of ticker t, in table order
GroupIdx(s, t) == SelectSeq([j \in 1..Len(s) |-> j], LAMBDA j : s[j].Ticker = t)

\* groupby("Ticker")[col].shift(L) at row j: the cell of the row L positions
\* earlier among the rows of the same ticker; NaN when there is none
GroupShift(s, col, L, j) ==
    LET g == GroupIdx(s, s[j].Ticker)
        p == Cardinality({q \in 1..Len(g) : g[q] <= j})
    IN  IF p > L THEN s[g[p - L]][col] ELSE NaN

\* (value - lagged) / lagged
Growth(v, lag) == FDiv(FSub(v, lag), lag)

-----------------------------------------------------------------------------
(* the provider: the tables simfin may return (bounded families) *)

MaxQ == 13        \* quarters reported by ticker A
MaxQB == 2        \* quarters reported by ticker B
MaxOddQ == 2      \* the quarter of A whose price records are irregular

\* report date of quarter k: A from 2000-03-31, B from 1999-12-31, 91 days apart
QuarterDay(t, k) == (IF t = "A" THEN 455 ELSE 364) + 91 * (k - 1)
QuarterOf(t, d) == (d - QuarterDay(t, 1)) \div 91 + 1

CandIdx(c) == CHOOSE k \in 1..Len(CAPEX_CANDS) : CAPEX_CANDS[k] = c

CfRow(t, k, cols) ==
    [Ticker |-> t, ReportDate |-> QuarterDay(t, k),
     OCF |-> Num(1 + ((k + TickerRank(t)) % 3)),
     capex |-> [c \in cols |-> Num(-CandIdx(c))]]

\* load_cashflow's result: its columns and its rows, latest first
CfTable(nA, nB, cols) ==
    [cols |-> cols,
     rows |-> [j \in 1..nB |-> CfRow("B", nB + 1 - j, cols)]
              \o [j \in 1..nA |-> CfRow("A", nA + 1 - j, cols)]]

CashflowTables ==
    {CfTable(nA, nB, cols) :
        nA \in 0..MaxQ, nB \in 0..MaxQB, cols \in SUBSET Range(CAPEX_CANDS)}

IncRow(t, d) ==
    [Ticker |-> t, ReportDate |-> d, Shares |-> Num(1 + (QuarterOf(t, d) % 2))]

\* load_income's result for the companies of cash-flow table c: the same
\* keys in ascending order, without A's quarter `hole` (0: none), and with
\* one key the cash-flow table lacks
IncTable(c, hole) ==
    LET keys == SortValues([j \in 1..Len(c.rows) |->
                   [Ticker |-> c.rows[j].Ticker, ReportDate |-> c.rows[j].ReportDate]],
                   <<"Ticker", "ReportDate">>)
        kept == SelectSeq(keys, LAMBDA r :
                   ~(r.Ticker = "A" /\ QuarterOf("A", r.ReportDate) = hole))
    IN  [j \in 1..Len(kept) |-> IncRow(kept[j].Ticker, kept[j].ReportDate)]
        \o <<IncRow("B", QuarterDay("B", MaxQB + 1))>>

IncomeTables(c) == {IncTable(c, hole) : hole \in {0, 3}}

Shapes == {"plus1", "zero", "two", "nanfirst", "nanonly", "straddle", "outside", "none"}

PxRow(t, d, p) == [Ticker |-> t, Date |-> d, AdjClose |-> p]

\* the daily prices around report date d, base price P, in date order
ShapeRows(shape, t, d, P) ==
    CASE shape = "plus1"    -> <<PxRow(t, d + 1, Num(P))>>
      [] shape = "zero"     -> <<PxRow(t, d, Num(0))>>
      [] shape = "two"      -> <<PxRow(t, d + 2, Num(P)), PxRow(t, d + 5, Num(P + 50))>>
      [] shape = "nanfirst" -> <<PxRow(t, d + 1, NaN), PxRow(t, d + 3, Num(P + 50))>>
      [] shape = "nanonly"  -> <<PxRow(t, d + 2, NaN)>>
      [] shape = "straddle" -> <<PxRow(t, d - 1, Num(P + 50)), PxRow(t, d + 7, Num(P)),
                                 PxRow(t, d + 8, Num(P + 60))>>
      [] shape = "outside"  -> <<PxRow(t, d - 1, Num(P)), PxRow(t, d + 8, Num(P + 60))>>
      [] shape = "none"     -> <<>>

\* load_shareprices' result for the companies of cash-flow table c, latest
\* first: one price the day after each report date, except around quarter
\* oddQ of ticker A
PxTable(c, oddQ, shape) ==
    Concat([j \in 1..Len(c.rows) |->
        LET t == c.rows[j].Ticker
            d == c.rows[j].ReportDate
            P == 10 * TickerRank(t) + QuarterOf(t, d)
        IN  Reverse(ShapeRows(IF t = "A" /\ QuarterOf(t, d) = oddQ THEN shape ELSE "plus1",
                              t, d, P))])

SharePriceTables(c) ==
    {PxTable(c, oddQ, shape) : oddQ \in 1..MaxOddQ, shape \in Shapes}

-----------------------------------------------------------------------------
(* RETRY HELPER *)

NoError == [type |-> "none", status |-> 0]
Ok == [type |-> "ok", status |-> 0]
HTTPError(status) == [type |-> "HTTPError", status |-> status]
ConnectionError == [type |-> "ConnectionError", status |-> 0]

\* what a provider call may raise
Failures == {HTTPError(st) : st \in {499, 500, 599, 600}} \cup {ConnectionError}

\* except HTTPError as e
Caught(e) == e.type = "HTTPError"

\* mutant of Reraise: every HTTPError is retried until the last attempt
ReraiseOnlyLast(e, k) == k = MAX_RETRY - 1

\* if i == MAX_RETRY - 1 or not (500 <= e.response.status_code < 600): raise
Reraise(e, k) == k = MAX_RETRY - 1 \/ ~(500 <= e.status /\ e.status < 600)

\* mutant of Wait: linear backoff
WaitLinear(k) == RETRY_DELAY * (k + 1)

\* wait = RETRY_DELAY * 2 ** i
Wait(k) == RETRY_DELAY * 2 ^ k

\* one iteration of retry's loop (for i in range(MAX_RETRY)) in which func
\* returns; the loop's locals end with the call
Returns ==
    /\ err = NoError
    /\ i < MAX_RETRY
    /\ last' = Ok
    /\ i' = 0
    /\ sleeps' = <<>>
    /\ calls' = 0
    /\ err' = err

\* one iteration of retry's loop in which func raises e: an HTTPError is
\* re-raised or slept on, anything else is not caught
Fails ==
    /\ err = NoError
    /\ i < MAX_RETRY
    /\ \E e \in Failures :
        /\ calls' = calls + 1
        /\ last' = e
        /\ IF Caught(e) /\ ~Reraise(e, i)
           THEN /\ sleeps' = Append(sleeps, Wait(i))
                /\ i' = i + 1
                /\ err' = err
           ELSE /\ err' = e
                /\ UNCHANGED <<i, sleeps>>

-----------------------------------------------------------------------------
(* 1) FUNDAMENTALS *)

None == "None"

\* mutant of CapexCol: the last candidate present instead of the first
CapexColLast(cols) ==
    LET hits == {k \in 1..Len(CAPEX_CANDS) : CAPEX_CANDS[k] \in cols}
    IN  IF hits = {} THEN "None"
        ELSE CAPEX_CANDS[CHOOSE k \in hits : \A h \in hits : k >= h]

\* next((c for c in CAPEX_CANDS if c in cf.columns), None)
CapexCol(cols) ==
    LET hits == {k \in 1..Len(CAPEX_CANDS) : CAPEX_CANDS[k] \in cols}
    IN  IF hits = {} THEN None
        ELSE CAPEX_CANDS[CHOOSE k \in hits : \A h \in hits : k <= h]

\* cf[[Ticker, Report Date, OCF, capex_col]] renamed, with FCF = OCF + CAPEX
ComputeFCF(rows, col) ==
    [j \in 1..Len(rows) |->
        [Ticker |-> rows[j].Ticker, ReportDate |-> rows[j].ReportDate,
         OCF |-> rows[j].OCF, CAPEX |-> rows[j].capex[col],
         FCF |-> FAdd(rows[j].OCF, rows[j].capex[col])]]

SameKey(a, b) == a.Ticker = b.Ticker /\ a.ReportDate = b.ReportDate

\* cf.merge(inc, on=["Ticker","Report Date"]): inner join, left order kept
MergeInner(left, right) ==
    Concat([j \in 1..Len(left) |->
        LET m == SelectSeq(right, LAMBDA r : SameKey(left[j], r))
        IN  [k \in 1..Len(m) |-> left[j] @@ [Shares |-> m[k].Shares]]])

\* mutant of YearKept: the start year itself is dropped
YearKeptStrict(r) == YearOf(r.ReportDate) > START_YEAR

\* d["Report Date"].dt.year >= START_YEAR
YearKept(r) == YearOf(r.ReportDate) >= START_YEAR

YearFilter(rows) == SelectSeq(rows, YearKept)

FCFPerShare(r) == FDiv(r.FCF, r.Shares)

\* the lagged FCF-per-share of row j for lag L
FCFpsLag(rows, L, j) == GroupShift(rows, "FCF_per_share", L, j)

\* lines 71-82 (basic) / 84-102 (extended): merge, filter, FCF per share,
\* sort, lagged values and growth for every lag of the variant
Fundamentals(cfRows, incRows, v) ==
    LET f1 == YearFilter(MergeInner(cfRows, incRows))
        f2 == [j \in 1..Len(f1) |-> f1[j] @@ [FCF_per_share |-> FCFPerShare(f1[j])]]
        f3 == SortValues(f2, <<"Ticker", "ReportDate">>)
    IN  [j \in 1..Len(f3) |->
            LET lag == [L \in LAGS(v) |-> FCFpsLag(f3, L, j)]
            IN  f3[j] @@ [FCFps_lag |-> lag,
                          FCFps_growth |-> [L \in LAGS(v) |->
                                               Growth(f3[j].FCF_per_share, lag[L])]]]

-----------------------------------------------------------------------------
(* 2) PRICES *)

\* reset_index()[[Ticker, Date, Adj. Close]] renamed and sorted
Prices(raw) ==
    SortValues([j \in 1..Len(raw) |->
                   [Ticker |-> raw[j].Ticker, TradeDate |-> raw[j].Date,
                    Price |-> raw[j].AdjClose]],
               <<"Ticker", "TradeDate">>)

\* fund[["Ticker","Report Date"]] with Report Date renamed to RptDate
FundKeyed(f) ==
    [j \in 1..Len(f) |-> [Ticker |-> f[j].Ticker, RptDate |-> f[j].ReportDate]]

\* fund_keyed.merge(px, on="Ticker", how="left")
MergeLeftOnTicker(keyed, p) ==
    Concat([j \in 1..Len(keyed) |->
        LET m == SelectSeq(p, LAMBDA r : r.Ticker = keyed[j].Ticker)
        IN  IF m = <<>>
            THEN <<keyed[j] @@ [TradeDate |-> NaT, Price |-> NaN]>>
            ELSE [k \in 1..Len(m) |->
                     keyed[j] @@ [TradeDate |-> m[k].TradeDate, Price |-> m[k].Price]]])

\* mutant of InWindow: the window is one day too long
InWindowEightDays(r) ==
    /\ r.TradeDate # NaT
    /\ r.TradeDate >= r.RptDate
    /\ r.TradeDate <= r.RptDate + WINDOW_DAYS + 1

\* (TradeDate >= RptDate) & (TradeDate <= RptDate + Timedelta(days=7));
\* a comparison with NaT is False
InWindow(r) ==
    /\ r.TradeDate # NaT
    /\ r.TradeDate >= r.RptDate
    /\ r.TradeDate <= r.RptDate + WINDOW_DAYS

\* GroupBy.first() of one column: the first non-null cell of the group
FirstPrice(g) ==
    LET ok == SelectSeq(g, LAMBDA r : ~IsNull(r.Price))
    IN  IF ok = <<>> THEN NaN ELSE ok[1].Price

FirstTradeDate(g) ==
    LET ok == SelectSeq(g, LAMBDA r : r.TradeDate # NaT)
    IN  IF ok = <<>> THEN NaT ELSE ok[1].TradeDate

\* groupby(["Ticker","RptDate"], as_index=False).first() of a table sorted
\* by its group keys: one row per key, each column aggregated on its own
GroupFirst(s) ==
    LET same(a, b) == a.Ticker = b.Ticker /\ a.RptDate = b.RptDate
        heads == SelectSeq([j \in 1..Len(s) |-> j],
                           LAMBDA j : \A q \in 1..(j - 1) : ~same(s[q], s[j]))
    IN  [h \in 1..Len(heads) |->
            LET g == SelectSeq(s, LAMBDA r : same(r, s[heads[h]]))
            IN  [Ticker |-> s[heads[h]].Ticker, RptDate |-> s[heads[h]].RptDate,
                 TradeDate |-> FirstTradeDate(g), Price |-> FirstPrice(g)]]

\* lines 101-108 (basic) / 119-126 (extended)
Align(f, p) ==
    GroupFirst(SortValues(SelectSeq(MergeLeftOnTicker(FundKeyed(f), p), InWindow),
                          <<"Ticker", "RptDate", "TradeDate">>))

\* fund.merge(temp, left_on=[Ticker, Report Date], right_on=[Ticker, RptDate],
\*            how="left").drop(columns="RptDate")
MergeBack(f, t) ==
    Concat([j \in 1..Len(f) |->
        LET m == SelectSeq(t, LAMBDA r : r.Ticker = f[j].Ticker
                                          /\ r.RptDate = f[j].ReportDate)
        IN  IF m = <<>>
            THEN <<f[j] @@ [TradeDate |-> NaT, Price |-> NaN]>>
            ELSE [k \in 1..Len(m) |->
                     f[j] @@ [TradeDate |-> m[k].TradeDate, Price |-> m[k].Price]]])

\* merged.dropna(subset=["Price"])
HasPrice(r) == ~IsNull(r.Price)

DropNa(m) == SelectSeq(m, HasPrice)

-----------------------------------------------------------------------------
(* 3) METRICS & SAVE *)

\* mutant of MarketCap: Price times FCF
MarketCapFCF(r) == FMul(r.Price, r.FCF)

\* merged["Price"] * merged["Shares (Basic)"]
MarketCap(r) == FMul(r.Price, r.Shares)

\* the lagged price of row j for lag L
PriceLag(rows, L, j) == GroupShift(rows, "Price", L, j)

Metrics(m, v) ==
    [j \in 1..Len(m) |->
        LET lag == [L \in LAGS(v) |-> PriceLag(m, L, j)]
        IN  m[j] @@ [Market_Cap |-> MarketCap(m[j]),
                     Price_lag |-> lag,
                     Price_growth |-> [L \in LAGS(v) |-> Growth(m[j].Price, lag[L])]]]

\* the columns written to OUT_CSV
Final(m) ==
    [j \in 1..Len(m) |->
        [Ticker |-> m[j].Ticker, ReportDate |-> m[j].ReportDate,
         Price |-> m[j].Price, Price_growth |-> m[j].Price_growth,
         Market_Cap |-> m[j].Market_Cap, FCF |-> m[j].FCF,
         FCF_per_share |-> m[j].FCF_per_share,
         FCFps_growth |-> m[j].FCFps_growth]]

-----------------------------------------------------------------------------
(* the script, top to bottom *)

KeyError == [type |-> "KeyError", status |-> 0]

Init ==
    /\ variant \in Variants
    /\ pc = "load_cashflow"
    /\ i = 0
    /\ sleeps = <<>>
    /\ calls = 0
    /\ last = NoError
    /\ err = NoError
    /\ cf = [cols |-> {}, rows |-> <<>>]
    /\ inc = <<>>
    /\ capex_col = None
    /\ fund = <<>>
    /\ px = <<>>
    /\ temp = <<>>
    /\ merged = <<>>
    /\ out = [written |-> FALSE, rows |-> <<>>]

\* cf = retry(sf.load_cashflow, ...)
LoadCashflow ==
    /\ pc = "load_cashflow"
    /\ \/ /\ Returns
          /\ \E t \in CashflowTables : cf' = t
          /\ pc' = "load_income"
          /\ UNCHANGED <<variant, inc, capex_col, fund, px, temp, merged, out>>
       \/ /\ Fails
          /\ UNCHANGED <<variant, pc, cf, inc, capex_col, fund, px, temp, merged, out>>

\* inc = retry(sf.load_income, ...), reduced to Ticker, Report Date, Shares
LoadIncome ==
    /\ pc = "load_income"
    /\ \/ /\ Returns
          /\ \E t \in IncomeTables(cf) : inc' = t
          /\ pc' = "capex"
          /\ UNCHANGED <<variant, cf, capex_col, fund, px, temp, merged, out>>
       \/ /\ Fails
          /\ UNCHANGED <<variant, pc, cf, inc, capex_col, fund, px, temp, merged, out>>

\* find a CapEx column, or raise KeyError; then compute FCF
ResolveCapex ==
    /\ pc = "capex"
    /\ err = NoError
    /\ capex_col' = CapexCol(cf.cols)
    /\ IF capex_col' = None
       THEN /\ err' = KeyError
            /\ UNCHANGED <<pc, cf>>
       ELSE /\ cf' = [cols |-> {"Ticker", "Report Date", "OCF", "CAPEX", "FCF"},
                      rows |-> ComputeFCF(cf.rows, capex_col')]
            /\ pc' = "fundamentals"
            /\ err' = err
    /\ UNCHANGED <<variant, i, sleeps, calls, last, inc, fund, px, temp, merged, out>>

\* merge fundamentals & filter, sort, lagged FCF-per-share growth
BuildFund ==
    /\ pc = "fundamentals"
    /\ fund' = Fundamentals(cf.rows, inc, variant)
    /\ pc' = "load_shareprices"
    /\ UNCHANGED <<variant, i, sleeps, calls, last, err, cf, inc, capex_col,
                   px, temp, merged, out>>

\* px = retry(sf.load_shareprices, ...), renamed and sorted
LoadSharePrices ==
    /\ pc = "load_shareprices"
    /\ \/ /\ Returns
          /\ \E t \in SharePriceTables(cf) : px' = Prices(t)
          /\ pc' = "align"
          /\ UNCHANGED <<variant, cf, inc, capex_col, fund, temp, merged, out>>
       \/ /\ Fails
          /\ UNCHANGED <<variant, pc, cf, inc, capex_col, fund, px, temp, merged, out>>

\* temp: the first price on or after each RptDate, within 7 calendar days
AlignPrices ==
    /\ pc = "align"
    /\ temp' = Align(fund, px)
    /\ pc' = "merge"
    /\ UNCHANGED <<variant, i, sleeps, calls, last, err, cf, inc, capex_col,
                   fund, px, merged, out>>

\* merge back onto fund and drop the rows without a price
MergePrices ==
    /\ pc = "merge"
    /\ merged' = DropNa(MergeBack(fund, temp))
    /\ pc' = "metrics"
    /\ UNCHANGED <<variant, i, sleeps, calls, last, err, cf, inc, capex_col,
                   fund, px, temp, out>>

\* market cap, price growth, column selection and to_csv
ComputeMetrics ==
    /\ pc = "metrics"
    /\ merged' = Metrics(merged, variant)
    /\ out' = [written |-> TRUE, rows |-> Final(merged')]
    /\ pc' = "done"
    /\ UNCHANGED <<variant, i, sleeps, calls, last, err, cf, inc, capex_col,
                   fund, px, temp>>

Next ==
    \/ LoadCashflow
    \/ LoadIncome
    \/ ResolveCapex
    \/ BuildFund
    \/ LoadSharePrices
    \/ AlignPrices
    \/ MergePrices
    \/ ComputeMetrics

Spec == Init /\ [][Next]_vars

-----------------------------------------------------------------------------
(* properties *)

LoadPcs == {"load_cashflow", "load_income", "load_shareprices"}
Aligned == pc \in {"merge", "metrics", "done"}
Merged == pc \in {"metrics", "done"}
FundBuilt == pc \in {"load_shareprices", "align", "merge", "metrics", "done"}

Is5xx(e) == e.type = "HTTPError" /\ e.status \in 500..599

\* the price records of ticker t dated within 7 days from report date d
Candidates(t, d) ==
    {r \in Range(px) : r.Ticker = t /\ d <= r.TradeDate /\ r.TradeDate <= d + 7}

Earliest(c) == CHOOSE r \in c : \A q \in c : r.TradeDate <= q.TradeDate

TempOf(t, d) == {r \in Range(temp) : r.Ticker = t /\ r.RptDate = d}

\* the rows of ticker t of table s, in table order
RowsOf(s, t) == SelectSeq(s, LAMBDA r : r.Ticker = t)

\* C1: every fundamentals key with a price record in its window is aligned
\* to the earliest such record, TradeDate and Price both taken from it (also
\* when that record's price is missing); a key with none is not aligned
C1_AlignedToEarliestRecord ==
    Aligned =>
        \A f \in Range(fund) :
            LET c == Candidates(f.Ticker, f.ReportDate)
                a == TempOf(f.Ticker, f.ReportDate)
            IN  IF c = {} THEN a = {}
                ELSE /\ Cardinality(a) = 1
                     /\ \A r \in a : /\ r.TradeDate = Earliest(c).TradeDate
                                     /\ r.Price = Earliest(c).Price

\* C2: every output row has a non-null Price and was aligned to a trade date
\* of its ticker within [ReportDate, ReportDate + 7]; a fundamentals record
\* with no trade date in that window is absent from the output, and its
\* absence raises no error
C2_OutputPriced ==
    Merged =>
        /\ \A r \in Range(merged) :
              /\ ~IsNull(r.Price)
              /\ r.ReportDate <= r.TradeDate
              /\ r.TradeDate <= r.ReportDate + 7
              /\ \E q \in Range(px) : q.Ticker = r.Ticker /\ q.TradeDate = r.TradeDate
        /\ \A f \in Range(fund) :
              Candidates(f.Ticker, f.ReportDate) = {} =>
                 ~\E r \in Range(merged) : SameKey(r, f)
        /\ err = NoError
        /\ pc = "done" =>
              /\ out.written
              /\ Len(out.rows) = Len(merged)
              /\ \A j \in 1..Len(merged) :
                    /\ SameKey(out.rows[j], merged[j])
                    /\ out.rows[j].Price = merged[j].Price

C2_Witness ==
    /\ pc = "done"
    /\ out.rows # <<>>
    /\ \E f \in Range(fund) :
          /\ Candidates(f.Ticker, f.ReportDate) = {}
          /\ \E q \in Range(px) : q.Ticker = f.Ticker /\ q.TradeDate = f.ReportDate + 8

\* C3: per ticker, records are in ascending ReportDate order and for every
\* lag L of the variant the FCF-per-share growth of the p-th record is null
\* for p <= L and (v[p] - v[p-L]) / v[p-L] otherwise, v taken from the
\* records of the same ticker only
C3_TrailingGrowth ==
    FundBuilt =>
        \A t \in Range(Tickers) :
            LET rows == RowsOf(fund, t)
            IN  /\ \A p \in 2..Len(rows) : rows[p - 1].ReportDate < rows[p].ReportDate
                /\ \A p \in 1..Len(rows) : \A L \in LAGS(variant) :
                      IF p <= L
                      THEN IsNull(rows[p].FCFps_growth[L])
                      ELSE rows[p].FCFps_growth[L] =
                              FDiv(FSub(rows[p].FCF_per_share, rows[p - L].FCF_per_share),
                                   rows[p - L].FCF_per_share)

C3_Witness ==
    /\ FundBuilt
    /\ variant = "extended"
    /\ Len(RowsOf(fund, "B")) > 0
    /\ LET rows == RowsOf(fund, "A")
       IN  /\ Len(rows) = 13
           /\ IsFinite(rows[13].FCFps_growth[12])
           /\ IsFinite(rows[9].FCFps_growth[8])
           /\ rows[5].FCFps_growth[4] # Num(0)
           /\ IsFinite(rows[5].FCFps_growth[4])
           /\ IsNull(rows[12].FCFps_growth[12])

\* C4: in every growth column of every output row, a lagged value that is
\* exactly zero gives a null growth value
C4_ZeroLagGivesNull ==
    pc = "done" =>
        \A r \in Range(merged) : \A L \in LAGS(variant) :
            /\ r.FCFps_lag[L] = Num(0) => IsNull(r.FCFps_growth[L])
            /\ r.Price_lag[L] = Num(0) => IsNull(r.Price_growth[L])

\* C5: retry invokes the call at most MAX_RETRY times; a 5xx failure of
\* attempt i < MAX_RETRY - 1 is followed by a sleep of RETRY_DELAY * 2^i and
\* another attempt; the first success returns; a 5xx failure of the last
\* attempt is re-raised without a sleep
C5_RetryBackoff ==
    [][(pc \in LoadPcs) =>
          /\ calls < MAX_RETRY
          /\ calls = i
          /\ sleeps = [k \in 1..i |-> RETRY_DELAY * 2 ^ (k - 1)]
          /\ last' = Ok =>
                /\ err' = NoError
                /\ calls' = 0
                /\ pc = "load_cashflow" => pc' = "load_income"
                /\ pc = "load_income" => pc' = "capex"
                /\ pc = "load_shareprices" => pc' = "align"
          /\ (Is5xx(last') /\ i < MAX_RETRY - 1) =>
                /\ sleeps' = Append(sleeps, RETRY_DELAY * 2 ^ i)
                /\ i' = i + 1
                /\ calls' = calls + 1
                /\ err' = NoError
                /\ pc' = pc
          /\ (Is5xx(last') /\ i = MAX_RETRY - 1) =>
                /\ err' = last'
                /\ sleeps' = sleeps
                /\ calls' = MAX_RETRY
                /\ pc' = pc
      ]_vars

C5_Witness ==
    /\ pc = "load_shareprices"
    /\ Is5xx(err)
    /\ calls = 5
    /\ sleeps = <<8, 16, 32, 64>>

\* C6: a failure that is not an HTTP 5xx error is propagated on the attempt
\* it occurs in, whatever the attempt: no sleep, no further invocation, and
\* nothing runs after it
C6_NonRetryablePropagates ==
    [][/\ (pc \in LoadPcs /\ last' # Ok /\ ~Is5xx(last')) =>
              /\ err' = last'
              /\ sleeps' = sleeps
              /\ i' = i
              /\ calls' = calls + 1
              /\ pc' = pc
       /\ (err # NoError /\ ~Is5xx(err)) => UNCHANGED vars
      ]_vars

C6_Witness ==
    /\ pc = "load_income"
    /\ err = HTTPError(499)
    /\ calls = 3
    /\ sleeps = <<8, 16>>

\* C7: the CapEx column is the first candidate, in list order, among the
\* table's columns, and FCF is computed from it; with no candidate present
\* the run ends in a KeyError with no price table loaded and no output
\* written, and nothing runs after it
C7_CapexResolution ==
    [][/\ pc = "capex" =>
              IF \E k \in 1..Len(CAPEX_CANDS) : CAPEX_CANDS[k] \in cf.cols
              THEN /\ \E k \in 1..Len(CAPEX_CANDS) :
                        /\ CAPEX_CANDS[k] \in cf.cols
                        /\ \A h \in 1..(k - 1) : CAPEX_CANDS[h] \notin cf.cols
                        /\ capex_col' = CAPEX_CANDS[k]
                   /\ err' = NoError
                   /\ pc' = "fundamentals"
                   /\ \A j \in 1..Len(cf.rows) :
                         cf'.rows[j].CAPEX = cf.rows[j].capex[capex_col']
              ELSE /\ err' = KeyError
                   /\ px' = <<>>
                   /\ ~out'.written
       /\ err = KeyError => UNCHANGED vars
       /\ (pc = "capex" /\ cf.cols = {"Capital Expenditures"}) =>
              capex_col' = "Capital Expenditures"
      ]_vars

C7_Witness ==
    /\ pc = "capex"
    /\ err = KeyError
    /\ cf.rows # <<>>
    /\ px = <<>>
    /\ ~out.written

KeysOf(s) == {<<s[j].Ticker, s[j].ReportDate>> : j \in 1..Len(s)}

\* the keys with a non-null price of their ticker in their 7-day window
Priced(t, d) == \E r \in Candidates(t, d) : ~IsNull(r.Price)

\* C8: the output holds exactly one row for each key of both the cash-flow
\* and the income table whose ReportDate year is >= START_YEAR and that has
\* a price in its window, ordered by Ticker then ReportDate
C8_OutputRowSet ==
    pc = "done" =>
        LET want == {k \in KeysOf(cf.rows) \cap KeysOf(inc) :
                        YearOf(k[2]) >= 2000 /\ Priced(k[1], k[2])}
        IN  /\ KeysOf(out.rows) = want
            /\ Len(out.rows) = Cardinality(want)
            /\ \A j \in 2..Len(out.rows) :
                  LexLess(<<TickerRank(out.rows[j - 1].Ticker), out.rows[j - 1].ReportDate>>,
                          <<TickerRank(out.rows[j].Ticker), out.rows[j].ReportDate>>)

C8_Witness ==
    /\ pc = "done"
    /\ Len(out.rows) > 2
    /\ \E k \in KeysOf(cf.rows) : k \notin KeysOf(inc)
    /\ \E k \in KeysOf(inc) : k \notin KeysOf(cf.rows)
    /\ \E k \in KeysOf(cf.rows) \cap KeysOf(inc) : YearOf(k[2]) < 2000
    /\ \E k \in KeysOf(cf.rows) \cap KeysOf(inc) :
          YearOf(k[2]) = 2000 /\ ~Priced(k[1], k[2])
    /\ \E r \in Range(out.rows) : r.Ticker = "B"

\* C9: Market_Cap of every output row is its Price times the basic share
\* count of the income record of the same (Ticker, ReportDate)
C9_MarketCap ==
    pc = "done" =>
        \A r \in Range(out.rows) :
            \E s \in Range(inc) :
                /\ SameKey(s, r)
                /\ r.Market_Cap = FMul(r.Price, s.Shares)

C9_Witness ==
    /\ pc = "done"
    /\ \E r \in Range(out.rows) : r.Market_Cap = Num(26) /\ r.Price = Num(13)

\* the key of the row L positions before row j among the rows of its ticker
LagKey(s, L, j) ==
    LET rows == RowsOf(s, s[j].Ticker)
        p == CHOOSE q \in 1..Len(rows) : SameKey(rows[q], s[j])
    IN  IF p > L THEN <<rows[p - L].Ticker, rows[p - L].ReportDate>> ELSE <<>>

\* C10: in every output row and for every lag with both growth values
\* non-null, the lagged Price and the lagged FCF-per-share come from the same
\* (Ticker, ReportDate)
C10_SameLagRecord ==
    pc = "done" =>
        \A j \in 1..Len(merged) : \A L \in LAGS(variant) :
            (~IsNull(merged[j].Price_growth[L]) /\ ~IsNull(merged[j].FCFps_growth[L])) =>
                \E f \in 1..Len(fund) :
                    /\ SameKey(fund[f], merged[j])
                    /\ LagKey(fund, L, f) = LagKey(merged, L, j)
====
